---- MODULE Spec2Model ----
(***************************************************************************)
(* Model of app.py: a Flask application with four routes (/, /upload,      *)
(* /authorize, /oauth2callback) that keeps an OAuth2 state token and a     *)
(* pickled credential in the Flask session and issues create-file calls    *)
(* to Google Drive.  One action per route handler; a handler runs to       *)
(* completion within one request.                                          *)
(***************************************************************************)
EXTENDS Integers, Sequences, FiniteSets, TLC

\* ---------------------------------------------------------------- bounds
MaxStates == 2      \* state tokens flow.authorization_url() may issue
MaxCreds == 2       \* token sets the token endpoint may issue
MaxCreates == 2     \* create-file calls recorded at the storage provider

\* ------------------------------------------------------- fixed value sets
Sessions == {"s1", "s2"}            \* browser sessions (one cookie each)
FileNames == {"", "a.txt"}          \* submitted file names; "" is the empty name
NoState == 0                        \* callback URL carrying no state parameter

\* module-level configuration of app.py
secret_key == "your-secret-key"
FOLDER_ID == "your-google-drive-folder-id"

VARIABLES
    session,      \* session[s]: the Flask session dict of browser session s
    nextState,    \* number of state tokens issued so far
    nextCred,     \* number of token sets issued so far
    drive,        \* sequence of create-file calls received by the provider
    began,        \* began[s]: /authorize has run on session s
    exchanged,    \* exchanged[s]: a token exchange has succeeded on session s
    consumed,     \* state tokens a successful callback has already used
    last          \* the last request handled and the response it produced

vars == <<session, nextState, nextCred, drive, began, exchanged, consumed, last>>

\* ------------------------------------------------------------ dict helpers
EmptyDict == [k \in {} |-> 0]
Has(d, k) == k \in DOMAIN d
Put(d, k, v) == [x \in (DOMAIN d) \cup {k} |-> IF x = k THEN v ELSE d[x]]

\* The session proxy is bound to the cookie of the request being handled: a
\* handler's writes reach the dict of its own browser session only.
BadSaveSession(sessions, s, d) == [x \in Sessions |-> d]
SaveSession(sessions, s, d) == [sessions EXCEPT ![s] = d]

\* pickle.dumps / pickle.loads of a google Credentials object
dumps(c) == <<"pickle", c>>
loads(b) == b[2]

\* Flask's default session interface: the session dict is serialized into a
\* cookie signed with app.secret_key (signed, not encrypted) and sent with
\* the response of every request that modified the session.
Cookie(d) == [payload |-> d, sig |-> secret_key]

\* url_for(...) targets and the remote authorization URL
URL_INDEX == "/"
URL_AUTHORIZE == "/authorize"
URL_PROVIDER == "https://accounts.google.com/o/oauth2/auth"

redirect(loc) == [status |-> "redirect", location |-> loc]
render_template == [status |-> "ok", location |-> "index.html"]
ServerError == [status |-> "error", location |-> "none"]

NoForm == EmptyDict
Forms == {NoForm} \cup {[k \in {"file"} |-> [filename |-> n]] : n \in FileNames}

\* The request handled last: its route, session and inputs (request.files,
\* the state parameter of request.url, and the outcomes decided by the
\* token endpoint, by MediaFileUpload and by the create call).
Request(route, s, files, urlState, codeOk, mediaOk, createOk) ==
    [route |-> route, sess |-> s, files |-> files, url_state |-> urlState,
     code_ok |-> codeOk, media_ok |-> mediaOk, create_ok |-> createOk]

\* The request together with what handling it did.
\*   exchanges, creates: remote calls made while handling this request
\*   read: <<c>> when pickle.loads(session['credentials']) ran and gave c
\*   set_cookie: <<cookie>> when the response carries a new session cookie
Reply(req, resp, exch, creates, read, cookie) ==
    [req |-> req, status |-> resp.status, location |-> resp.location,
     exchanges |-> exch, creates |-> creates, read |-> read,
     set_cookie |-> cookie]

Init ==
    /\ session = [s \in Sessions |-> EmptyDict]
    /\ nextState = 0
    /\ nextCred = 0
    /\ drive = <<>>
    /\ began = [s \in Sessions |-> FALSE]
    /\ exchanged = [s \in Sessions |-> FALSE]
    /\ consumed = {}
    /\ last = Reply(Request("none", "s1", NoForm, NoState, FALSE, FALSE, FALSE),
                    ServerError, 0, 0, <<>>, <<>>)

\* ------------------------------------------------------- get_drive_service
\* Returns the redirect response when the session has no credential,
\* otherwise the Drive client built from the unpickled credential.
BadGetDriveService(d) ==
    IF Has(d, "credentials")
    THEN [kind |-> "service", credentials |-> loads(d["credentials"])]
    ELSE [kind |-> "service", credentials |-> 0]
get_drive_service(d) ==
    IF ~Has(d, "credentials")
    THEN [kind |-> "redirect", credentials |-> 0]
    ELSE [kind |-> "service", credentials |-> loads(d["credentials"])]

\* ------------------------------------------------------------------ GET /
BadIndexResponse(d) ==
    IF Has(d, "credentials") THEN redirect(URL_AUTHORIZE) ELSE render_template
IndexResponse(d) ==
    IF ~Has(d, "credentials") THEN redirect(URL_AUTHORIZE) ELSE render_template

index(s) ==
    /\ last' = Reply(Request("index", s, NoForm, NoState, FALSE, FALSE, FALSE),
                     IndexResponse(session[s]), 0, 0, <<>>, <<>>)
    /\ UNCHANGED <<session, nextState, nextCred, drive, began, exchanged, consumed>>

\* ----------------------------------------------------------- POST /upload
\* The two early returns: no 'file' part, or a file part with an empty name.
BadMalformedUpload(files) == ~Has(files, "file")
MalformedUpload(files) ==
    IF ~Has(files, "file") THEN TRUE
    ELSE files["file"].filename = ""

CreateCall(s, name, cred) ==
    [body |-> [name |-> name, parents |-> <<FOLDER_ID>>], fields |-> "id",
     credentials |-> cred, sess |-> s]

\* The handler as a function of the session dict, request.files and the two
\* outcomes decided outside the program: whether MediaFileUpload(file.stream)
\* constructs (it is handed a stream where the library opens a path) and
\* whether the remote create call succeeds.  Gives the response, the
\* create-file calls issued and the credential read.
UploadOutcome(s, d, files, mediaOk, createOk) ==
    IF MalformedUpload(files)
    THEN [resp |-> redirect(URL_INDEX), calls |-> <<>>, read |-> <<>>]
    ELSE LET drive_service == get_drive_service(d)
             read == IF drive_service.kind = "service"
                     THEN <<drive_service.credentials>> ELSE <<>>
         IN  IF ~mediaOk
             THEN [resp |-> ServerError, calls |-> <<>>, read |-> read]
             ELSE IF drive_service.kind # "service"
             THEN [resp |-> ServerError, calls |-> <<>>, read |-> read]
             ELSE [resp |-> IF createOk THEN redirect(URL_INDEX) ELSE ServerError,
                   calls |-> <<CreateCall(s, files["file"].filename,
                                          drive_service.credentials)>>,
                   read |-> read]

upload_file(s, files, mediaOk, createOk) ==
    LET out == UploadOutcome(s, session[s], files, mediaOk, createOk) IN
    /\ Len(drive) + Len(out.calls) <= MaxCreates
    /\ drive' = drive \o out.calls
    /\ last' = Reply(Request("upload", s, files, NoState, FALSE, mediaOk, createOk),
                     out.resp, 0, Len(out.calls), out.read, <<>>)
    /\ UNCHANGED <<session, nextState, nextCred, began, exchanged, consumed>>

\* -------------------------------------------------------------- /authorize
\* session['state'] = state
BadStoreState(d, state) == [k \in {"state"} |-> state]
BadKeepState(d, state) == IF Has(d, "state") THEN d ELSE Put(d, "state", state)
StoreState(d, state) == Put(d, "state", state)

\* flow.authorization_url() issues a fresh random state token; the handler
\* stores it under 'state' and redirects to the provider.
authorize(s) ==
    /\ nextState < MaxStates
    /\ LET state == nextState + 1
           d == StoreState(session[s], state)
       IN  /\ session' = SaveSession(session, s, d)
           /\ nextState' = state
           /\ began' = [began EXCEPT ![s] = TRUE]
           /\ last' = Reply(Request("authorize", s, NoForm, NoState, FALSE, FALSE, FALSE),
                            redirect(URL_PROVIDER), 0, 0, <<>>, <<Cookie(d)>>)
    /\ UNCHANGED <<nextCred, drive, exchanged, consumed>>

\* --------------------------------------------------------- /oauth2callback
\* state = session['state']: <<state>>, or <<>> when the lookup raises KeyError
BadStoredState(d) == IF Has(d, "state") THEN <<d["state"]>> ELSE <<NoState>>
StoredState(d) == IF Has(d, "state") THEN <<d["state"]>> ELSE <<>>

\* Flow(..., state=state).fetch_token(authorization_response=request.url):
\* the OAuth session parses the callback URL against the state it was
\* constructed with and raises on a mismatch before any token request; it
\* then posts the code to the token endpoint, which accepts or rejects it.
BadFetchToken(state, urlState, codeOk) ==
    IF ~codeOk THEN [result |-> "rejected", exchanges |-> 1]
    ELSE [result |-> "ok", exchanges |-> 1]
BadRetryFetchToken(state, urlState, codeOk) ==
    IF urlState # state THEN [result |-> "mismatch", exchanges |-> 0]
    ELSE IF ~codeOk THEN [result |-> "rejected", exchanges |-> 2]
    ELSE [result |-> "ok", exchanges |-> 1]
FetchToken(state, urlState, codeOk) ==
    IF urlState # state THEN [result |-> "mismatch", exchanges |-> 0]
    ELSE IF ~codeOk THEN [result |-> "rejected", exchanges |-> 1]
    ELSE [result |-> "ok", exchanges |-> 1]

\* session['credentials'] = pickle.dumps(flow.credentials)
BadStoreCredentials(d, credentials) == d
BadKeepCredentials(d, credentials) ==
    IF Has(d, "credentials") THEN d ELSE Put(d, "credentials", dumps(credentials))
StoreCredentials(d, credentials) == Put(d, "credentials", dumps(credentials))

BadCallbackFails(s, urlState, codeOk, exch) ==
    /\ last' = Reply(Request("oauth2callback", s, NoForm, urlState, codeOk, FALSE, FALSE),
                     ServerError, exch, 0, <<>>, <<>>)
    /\ session' = SaveSession(session, s,
                      [k \in (DOMAIN session[s]) \ {"state"} |-> session[s][k]])
    /\ UNCHANGED <<nextState, nextCred, drive, began, exchanged, consumed>>
CallbackFails(s, urlState, codeOk, exch) ==
    /\ last' = Reply(Request("oauth2callback", s, NoForm, urlState, codeOk, FALSE, FALSE),
                     ServerError, exch, 0, <<>>, <<>>)
    /\ UNCHANGED <<session, nextState, nextCred, drive, began, exchanged, consumed>>

oauth2callback(s, urlState, codeOk) ==
    LET state == StoredState(session[s]) IN
    IF state = <<>>
    THEN CallbackFails(s, urlState, codeOk, 0)
    ELSE LET tok == FetchToken(state[1], urlState, codeOk) IN
         IF tok.result # "ok"
         THEN CallbackFails(s, urlState, codeOk, tok.exchanges)
         ELSE /\ nextCred < MaxCreds
              /\ LET credentials == nextCred + 1
                     d == StoreCredentials(session[s], credentials)
                 IN  /\ session' = SaveSession(session, s, d)
                     /\ nextCred' = credentials
                     /\ exchanged' = [exchanged EXCEPT ![s] = TRUE]
                     /\ consumed' = consumed \cup {urlState}
                     /\ last' = Reply(Request("oauth2callback", s, NoForm, urlState,
                                              codeOk, FALSE, FALSE),
                                      redirect(URL_INDEX), tok.exchanges, 0,
                                      <<>>, <<Cookie(d)>>)
              /\ UNCHANGED <<nextState, drive, began>>

Next ==
    \/ \E s \in Sessions : index(s)
    \/ \E s \in Sessions, files \in Forms, mediaOk \in BOOLEAN, createOk \in BOOLEAN :
          upload_file(s, files, mediaOk, createOk)
    \/ \E s \in Sessions : authorize(s)
    \/ \E s \in Sessions, urlState \in 0..MaxStates, codeOk \in BOOLEAN :
          oauth2callback(s, urlState, codeOk)

Spec == Init /\ [][Next]_vars

\* ---------------------------------------------------------- session states
Unauthenticated(d) == ~Has(d, "credentials") /\ ~Has(d, "state")
AwaitingCallback(d) == ~Has(d, "credentials") /\ Has(d, "state")
Authenticated(d) == Has(d, "credentials")
ValidFile(files) == Has(files, "file") /\ files["file"].filename # ""

\* The session the last request belongs to.
cur == session[last.req.sess]

\* ------------------------------------------------------------------- C1
\* C1: on a session with no stored credential, GET / and POST /upload (any
\* form content) both answer with a redirect to /authorize.
C1_NoCredentialRedirectsToAuthorize ==
    (last.req.route \in {"index", "upload"} /\ ~Has(cur, "credentials"))
        => (last.status = "redirect" /\ last.location = URL_AUTHORIZE)

\* ------------------------------------------------------------------- C2
\* C2: a callback on an AWAITING_CALLBACK session with the stored state and
\* a code the token endpoint accepts stores the credential obtained from the
\* exchange and redirects to the main page; from then on every read of the
\* session's store gives a present credential.
C2_CallbackStep ==
    \A s \in Sessions :
        (/\ AwaitingCallback(session[s])
         /\ last'.req.route = "oauth2callback"
         /\ last'.req.sess = s
         /\ last'.req.url_state = session[s]["state"]
         /\ last'.req.code_ok)
        => (/\ Authenticated(session'[s])
            /\ session'[s]["credentials"] = dumps(nextCred')
            /\ nextCred' = nextCred + 1
            /\ get_drive_service(session'[s]) =
                   [kind |-> "service", credentials |-> nextCred']
            /\ last'.exchanges = 1
            /\ last'.status = "redirect"
            /\ last'.location = URL_INDEX)

C2_SuccessfulCallbackAuthenticates ==
    /\ [][C2_CallbackStep]_vars
    /\ [](\A s \in Sessions :
            exchanged[s] => get_drive_service(session[s]).kind = "service")

C2_Witness ==
    /\ last.req.route = "oauth2callback"
    /\ last.req.code_ok
    /\ Has(cur, "state") /\ last.req.url_state = cur["state"]
    /\ Authenticated(cur)
    /\ cur["credentials"] = dumps(nextCred)
    /\ last.status = "redirect"

\* ------------------------------------------------------------------- C3
\* C3: a callback on a session on which /authorize never ran ends in an
\* error, performs no token exchange and stores no credential.
C3_CallbackWithoutStateFails ==
    (last.req.route = "oauth2callback" /\ ~began[last.req.sess])
        => (/\ last.status = "error"
            /\ last.exchanges = 0
            /\ last.set_cookie = <<>>
            /\ ~Has(cur, "credentials"))

C3_Witness ==
    /\ last.req.route = "oauth2callback"
    /\ ~began[last.req.sess]
    /\ last.req.code_ok
    /\ last.status = "error"

\* ------------------------------------------------------------------- C4
\* C4: a callback whose state value differs from the one stored in the
\* session is rejected: it ends in an error and stores no credential (the
\* session is left as it was).
C4_MismatchStep ==
    \A s \in Sessions :
        (/\ last'.req.route = "oauth2callback"
         /\ last'.req.sess = s
         /\ Has(session[s], "state")
         /\ last'.req.url_state # session[s]["state"])
        => (/\ last'.status = "error"
            /\ last'.exchanges = 0
            /\ session'[s] = session[s])

C4_StateMismatchRejected == [][C4_MismatchStep]_vars

C4_Witness ==
    /\ last.req.route = "oauth2callback"
    /\ last.req.code_ok
    /\ Has(cur, "state")
    /\ last.req.url_state # cur["state"]
    /\ last.req.url_state # NoState
    /\ last.status = "error"

\* ------------------------------------------------------------------- C5
\* C5: an upload with a valid file on a session holding a credential issues
\* exactly one create-file call, whose metadata carries the submitted name
\* and FOLDER_ID as parent, and answers with a redirect to the main page.
C5_ValidUploadCreatesOnce ==
    (/\ last.req.route = "upload"
     /\ ValidFile(last.req.files)
     /\ Authenticated(cur))
        => (/\ last.creates = 1
            /\ Len(drive) >= 1
            /\ drive[Len(drive)].body.name = last.req.files["file"].filename
            /\ drive[Len(drive)].body.parents = <<FOLDER_ID>>
            /\ last.status = "redirect"
            /\ last.location = URL_INDEX)

\* ------------------------------------------------------------------- C6
\* C6: an upload with no file field or an empty filename redirects to the
\* main page and issues no create-file call, whatever the session's state.
C6_Step ==
    (/\ last'.req.route = "upload"
     /\ ~ValidFile(last'.req.files))
        => (/\ last'.status = "redirect"
            /\ last'.location = URL_INDEX
            /\ last'.creates = 0
            /\ drive' = drive)

C6_MalformedUploadRedirects == [][C6_Step]_vars

C6_Witness ==
    /\ last.req.route = "upload"
    /\ Has(last.req.files, "file")
    /\ ~ValidFile(last.req.files)
    /\ Authenticated(cur)
    /\ last.req.media_ok /\ last.req.create_ok
    /\ last.status = "redirect"

\* ------------------------------------------------------------------- C7
\* C7: a session's credential becomes present only in a successful callback
\* on that session, taken while a state token stored by an earlier
\* /authorize is in the session; no other route stores a credential.
C7_Step ==
    \A s \in Sessions :
        (~Has(session[s], "credentials") /\ Has(session'[s], "credentials"))
        => (/\ last'.req.route = "oauth2callback"
            /\ last'.req.sess = s
            /\ last'.status = "redirect"
            /\ last'.exchanges = 1
            /\ began[s]
            /\ AwaitingCallback(session[s])
            /\ last'.req.url_state = session[s]["state"])

C7_CredentialOnlyViaCallback ==
    /\ [][C7_Step]_vars
    /\ [](\A s \in Sessions : Has(session[s], "credentials") => began[s] /\ exchanged[s])

C7_Witness ==
    /\ last.req.route = "oauth2callback"
    /\ last.status = "redirect"
    /\ Has(cur, "credentials")
    /\ began[last.req.sess]
    /\ \E r \in Sessions : began[r] /\ ~exchanged[r] /\ ~Has(session[r], "credentials")

\* ------------------------------------------------------------------- C8
\* C8: once a session holds a credential it holds one in every later state,
\* whatever request is handled.
C8_Step ==
    \A s \in Sessions :
        Has(session[s], "credentials") => Has(session'[s], "credentials")

C8_AuthenticatedIsTerminal == [][C8_Step]_vars

C8_Witness ==
    /\ Authenticated(cur)
    /\ last.req.route = "authorize"

\* ------------------------------------------------------------------- C9
\* C9: no response carries the credential to the client: the session cookie
\* set by a response never contains the credential.
C9_CredentialNeverSentToClient ==
    last.set_cookie # <<>> => ~Has(last.set_cookie[1].payload, "credentials")

\* ------------------------------------------------------------------ C10
\* C10: the stored credential is read only on a session on which a callback
\* has already stored one, and the value read is the stored one; a read
\* attempted earlier gives the redirect (NOT_PRESENT) outcome.
C10_NoReadBeforeExchange ==
    /\ last.read # <<>> =>
          (/\ exchanged[last.req.sess]
           /\ Has(cur, "credentials")
           /\ last.read[1] = loads(cur["credentials"])
           /\ last.read[1] \in 1..nextCred)
    /\ \A s \in Sessions :
          ~exchanged[s] => get_drive_service(session[s]).kind = "redirect"
    /\ (last.req.route = "upload" /\ ValidFile(last.req.files)
            /\ ~exchanged[last.req.sess])
          => (last.read = <<>> /\ last.creates = 0)

C10_Witness ==
    /\ last.read # <<>>
    /\ last.req.route = "upload"
    /\ \E s \in Sessions : ~exchanged[s] /\ began[s]

\* The last request was a callback that stored a credential on session s.
PutOn(s) ==
    /\ last'.req.route = "oauth2callback"
    /\ last'.req.sess = s
    /\ last'.status = "redirect"

\* ------------------------------------------------------------------ C11
\* C11: reading the store has no effect on it: across any request that is
\* not a successful callback on the session (/, /upload, /authorize, failed
\* callbacks, requests of other sessions) a read gives the same result
\* before and after, and a read made by /upload gives the stored value.
C11_Step ==
    \A s \in Sessions :
        ~PutOn(s) =>
            /\ get_drive_service(session'[s]) = get_drive_service(session[s])
            /\ (last'.req.sess = s /\ last'.read # <<>>)
                  => last'.read = <<get_drive_service(session'[s]).credentials>>

C11_GetIsIdempotent == [][C11_Step]_vars

C11_Witness ==
    /\ last.req.route = "upload"
    /\ last.read # <<>>
    /\ Len(drive) = 2
    /\ drive[1].sess = drive[2].sess
    /\ drive[1].credentials = drive[2].credentials
    /\ began[last.req.sess] /\ nextState = 2 /\ \E r \in Sessions : ~began[r]

\* ------------------------------------------------------------------ C12
\* C12: a successful callback on a session that already holds a credential
\* replaces it by the credential of the latest exchange; the earlier one is
\* no longer what a read returns.
C12_Step ==
    \A s \in Sessions :
        (Authenticated(session[s]) /\ PutOn(s))
        => (/\ session'[s]["credentials"] = dumps(nextCred')
            /\ nextCred' = nextCred + 1
            /\ session'[s]["credentials"] # session[s]["credentials"]
            /\ get_drive_service(session'[s]).credentials = nextCred'
            /\ get_drive_service(session'[s]).credentials
                   # get_drive_service(session[s]).credentials)

C12_PutOverwrites == [][C12_Step]_vars

C12_Witness ==
    /\ last.req.route = "oauth2callback"
    /\ last.status = "redirect"
    /\ nextCred = 2
    /\ cur["credentials"] = dumps(2)
    /\ \E r \in Sessions : ~exchanged[r]

\* ------------------------------------------------------------------ C13
\* C13: a request makes each remote call at most once; a callback that
\* reaches the token endpoint makes one exchange, an upload that reaches the
\* create call issues one; when the remote side fails the call, the request
\* makes no further attempt and ends in an error.
C13_Step ==
    /\ last'.exchanges <= 1
    /\ last'.creates <= 1
    /\ Len(drive') = Len(drive) + last'.creates
    /\ last'.req.route \in {"index", "authorize"}
          => (last'.exchanges = 0 /\ last'.creates = 0)
    /\ last'.req.route = "upload" => last'.exchanges = 0
    /\ last'.req.route = "oauth2callback" =>
          /\ last'.creates = 0
          /\ (Has(session[last'.req.sess], "state")
                /\ last'.req.url_state = session[last'.req.sess]["state"])
                => last'.exchanges = 1
          /\ (last'.exchanges = 1 /\ ~last'.req.code_ok) => last'.status = "error"
    /\ (last'.req.route = "upload" /\ last'.creates = 1 /\ ~last'.req.create_ok)
          => last'.status = "error"

C13_NoRetries == [][C13_Step]_vars

C13_Witness ==
    /\ last.req.route = "oauth2callback"
    /\ ~last.req.code_ok
    /\ last.exchanges = 1
    /\ last.status = "error"
    /\ Len(drive) >= 1

\* ------------------------------------------------------------------ C14
\* C14: the state token is single-use: a callback presenting a state value
\* that a successful callback has already used is not accepted and stores
\* no credential.
C14_Step ==
    \A s \in Sessions :
        (/\ last'.req.route = "oauth2callback"
         /\ last'.req.sess = s
         /\ last'.req.url_state \in consumed)
        => (last'.status = "error" /\ session'[s] = session[s])

C14_StateTokenSingleUse == [][C14_Step]_vars

\* ------------------------------------------------------------------ C15
\* C15: a request of one session leaves every other session's dict (its
\* credential and state token) as it was, and what it reads and sends to the
\* provider is its own session's credential.
C15_Step ==
    /\ \A s \in Sessions :
          s # last'.req.sess =>
             /\ session'[s] = session[s]
             /\ began'[s] = began[s]
             /\ exchanged'[s] = exchanged[s]
    /\ last'.read # <<>> =>
          last'.read = <<loads(session[last'.req.sess]["credentials"])>>
    /\ drive' # drive =>
          /\ drive'[Len(drive')].sess = last'.req.sess
          /\ drive'[Len(drive')].credentials
                 = loads(session[last'.req.sess]["credentials"])

C15_SessionsIsolated ==
    /\ [][C15_Step]_vars
    /\ [](\A s \in Sessions : Authenticated(session[s]) => exchanged[s])

C15_Witness ==
    \E s, r \in Sessions :
        /\ Authenticated(session[s])
        /\ ~Authenticated(session[r])
        /\ began[r]
        /\ last.req.sess = r
        /\ last.req.route = "index"
        /\ last.location = URL_AUTHORIZE

\* ------------------------------------------------------------------ C16
\* C16: a callback that fails (no state token, state mismatch, or code
\* rejected) leaves every session dict as it was: credential and state token
\* are the same after the request as before.
C16_Step ==
    (last'.req.route = "oauth2callback" /\ last'.status = "error")
        => (/\ session' = session
            /\ last'.set_cookie = <<>>
            /\ exchanged' = exchanged)

C16_FailedCallbackKeepsSession == [][C16_Step]_vars

C16_Witness ==
    /\ last.req.route = "oauth2callback"
    /\ last.status = "error"
    /\ last.exchanges = 1
    /\ Authenticated(cur)
    /\ last.req.url_state = cur["state"]

\* ------------------------------------------------------------------ C17
\* C17: every create-file call is issued for a session that holds a
\* credential, with that credential; a valid upload on a session without a
\* credential issues none.
C17_Step ==
    /\ drive' # drive =>
          /\ Authenticated(session[last'.req.sess])
          /\ drive'[Len(drive')].credentials \in 1..nextCred
    /\ (last'.req.route = "upload" /\ ~Authenticated(session[last'.req.sess]))
          => (last'.creates = 0 /\ drive' = drive)

C17_NoCreateWithoutCredential ==
    /\ [][C17_Step]_vars
    /\ [](\A i \in 1..Len(drive) :
            exchanged[drive[i].sess] /\ drive[i].credentials \in 1..nextCred)

C17_Witness ==
    /\ Len(drive) >= 1
    /\ last.req.route = "upload"
    /\ ValidFile(last.req.files)
    /\ last.req.media_ok /\ last.req.create_ok
    /\ ~Authenticated(cur)
    /\ last.creates = 0

\* ------------------------------------------------------------------ C18
\* C18: /authorize stores a freshly issued state token, replacing any token
\* of an earlier /authorize, and leaves the rest of the session (the
\* credential) as it was; a callback completes only with the token stored
\* most recently, and one carrying an earlier token is rejected.
C18_Step ==
    \A s \in Sessions :
        /\ (last'.req.route = "authorize" /\ last'.req.sess = s) =>
              /\ nextState' = nextState + 1
              /\ session'[s]["state"] = nextState'
              /\ DOMAIN session'[s] = DOMAIN session[s] \cup {"state"}
              /\ \A k \in DOMAIN session[s] \ {"state"} :
                    session'[s][k] = session[s][k]
        /\ PutOn(s) =>
              (Has(session[s], "state") /\ last'.req.url_state = session[s]["state"])
        /\ (/\ last'.req.route = "oauth2callback" /\ last'.req.sess = s
            /\ Has(session[s], "state")
            /\ last'.req.url_state \in 1..nextState
            /\ last'.req.url_state # session[s]["state"])
              => (last'.status = "error" /\ session'[s] = session[s])

C18_AuthorizeReplacesStateOnly == [][C18_Step]_vars

C18_Witness ==
    /\ last.req.route = "oauth2callback"
    /\ last.req.url_state = 1
    /\ last.req.code_ok
    /\ Has(cur, "state") /\ cur["state"] = 2
    /\ \E r \in Sessions : ~began[r]
    /\ last.status = "error"

\* ------------------------------------------------------------------ C19
\* C19: GET / and POST /upload leave every session dict as it was and set
\* no cookie, whatever their input and outcome; on a session holding a
\* credential GET / renders the upload form and makes no remote call.
C19_Step ==
    /\ last'.req.route \in {"index", "upload"} =>
          (session' = session /\ last'.set_cookie = <<>>)
    /\ (last'.req.route = "index" /\ Authenticated(session[last'.req.sess])) =>
          /\ last'.status = "ok"
          /\ last'.location = "index.html"
          /\ last'.exchanges = 0
          /\ last'.creates = 0
          /\ drive' = drive

C19_IndexAndUploadKeepSession == [][C19_Step]_vars

C19_Witness ==
    /\ last.req.route = "index"
    /\ last.status = "ok"
    /\ Authenticated(cur)
    /\ Len(drive) >= 1
====
